---- MODULE Spec2Model ----
(***************************************************************************)
(* The chat client of the GitHub repository analyzer: ChatInterface's      *)
(* handleSubmit (request, stream read loop, event dispatch) over a byte    *)
(* stream of newline-delimited "data: " records.                           *)
(*                                                                         *)
(* Text is a sequence of one-character strings.  "LF" is the newline,      *)
(* "eacute" a two-byte UTF-8 character (bytes "C3" "A9"), "FFFD" the       *)
(* replacement character TextDecoder emits for an incomplete sequence.     *)
(* A JSON payload is written  { tag body }  :                              *)
(*    {c text}      {"type":"content","content":text}                      *)
(*    {t id}        {"type":"tool_call","toolCall":id}                     *)
(*    {r id}        {"type":"tool_result","result":id}                     *)
(*    {D cs | rs}   {"type":"done","toolCalls":cs,"toolResults":rs}        *)
(*                  ("~" in place of a list: the field is absent)          *)
(*    {e msg}       {"type":"error","error":msg}                           *)
(*    {u}           a JSON object of a type the client does not know       *)
(* Every other text is not JSON; no proper prefix of a payload is JSON.    *)
(***************************************************************************)
EXTENDS Integers, Sequences, FiniteSets, TLC

\* ------------------------------------------------------------------ bounds
\* Records (lines) the backend sends in answer to the first request of a
\* conversation, and to each later request.
MaxRecords == 2
LaterRecords == 1
\* Requests the user submits in a conversation.
MaxSubmits == 2
\* Records of the one response the stream specification reads.
StreamRecords == 3
\* Records of each of the two responses of a replay.
ReplayRecords == 1
\* Lines the backend sends in a request whose stream carries noise.
NoiseRecords == 2
\* Lines the backend sends in the first of two requests that are followed to
\* their end.
FinishRecords == 2

\* Records of the first response of a conversation with tool calls.
ToolRecords == 2
\* Records of the one response that carries done events.
DoneRecords == 3

\* --------------------------------------------------------------- alphabet
LF == "LF"
SP == " "
Marker == <<"d", "a", "t", "a", ":", SP>>
MarkerLen == 6
ToolIds == {"x", "y"}
ContentChars == {"a", "eacute", "FFFD"}
ErrMsgs == {"m"}
Absent == <<"~">>

\* ------------------------------------------------------------ text helpers
\* TextDecoder.decode(value) without {stream: true}: every chunk is decoded
\* on its own, an incomplete multi-byte sequence becomes U+FFFD.
RECURSIVE decode(_)
decode(bs) ==
  IF bs = <<>> THEN <<>>
  ELSE IF Head(bs) = "C3"
       THEN IF Len(bs) >= 2 /\ bs[2] = "A9"
            THEN <<"eacute">> \o decode(Tail(Tail(bs)))
            ELSE <<"FFFD">> \o decode(Tail(bs))
       ELSE IF Head(bs) = "A9"
            THEN <<"FFFD">> \o decode(Tail(bs))
            ELSE <<Head(bs)>> \o decode(Tail(bs))

\* String.prototype.split("\n")
RECURSIVE split(_)
split(s) ==
  IF \A i \in 1..Len(s) : s[i] /= LF THEN <<s>>
  ELSE LET i == CHOOSE k \in 1..Len(s) :
                  s[k] = LF /\ \A j \in 1..(k - 1) : s[j] /= LF
       IN <<SubSeq(s, 1, i - 1)>> \o split(SubSeq(s, i + 1, Len(s)))

\* String.prototype.trim()
RECURSIVE trimStart(_)
trimStart(s) ==
  IF s /= <<>> /\ Head(s) = SP THEN trimStart(Tail(s)) ELSE s

RECURSIVE trimEnd(_)
trimEnd(s) ==
  IF s /= <<>> /\ s[Len(s)] = SP THEN trimEnd(SubSeq(s, 1, Len(s) - 1)) ELSE s

trim(s) == trimEnd(trimStart(s))

\* String.prototype.startsWith("data: ")
startsWith(s) ==
  Len(s) >= MarkerLen /\ SubSeq(s, 1, MarkerLen) = Marker

\* String.prototype.slice(6)
slice(s) == SubSeq(s, MarkerLen + 1, Len(s))

\* ------------------------------------------------------------------ events
NoEvent ==
  [type |-> "none", content |-> <<>>, toolCall |-> "", result |-> "",
   toolCalls |-> <<>>, toolResults |-> <<>>, error |-> ""]

IsIdList(s) == \A i \in 1..Len(s) : s[i] \in ToolIds

\* A list field of a done payload: "~" (absent) or a list of ids.
IsListField(s) == s = Absent \/ IsIdList(s)

\* Mutant: an absent list is stored as it came.
orUndefined(field) == field

\* data.toolCalls || []
orEmpty(field) == IF field = Absent THEN <<>> ELSE field

Bars(s) == {i \in 1..Len(s) : s[i] = "|"}

\* JSON.parse(jsonStr): [ok |-> FALSE] is the SyntaxError it throws.
JSONparse(s) ==
  IF Len(s) < 3 \/ s[1] /= "{" \/ s[Len(s)] /= "}"
  THEN [ok |-> FALSE, data |-> NoEvent]
  ELSE
    LET tag  == s[2]
        body == SubSeq(s, 3, Len(s) - 1)
    IN
    IF tag = "c" /\ \A i \in 1..Len(body) : body[i] \in ContentChars
    THEN [ok |-> TRUE, data |-> [NoEvent EXCEPT !.type = "content", !.content = body]]
    ELSE IF tag = "t" /\ Len(body) = 1 /\ body[1] \in ToolIds
    THEN [ok |-> TRUE, data |-> [NoEvent EXCEPT !.type = "tool_call", !.toolCall = body[1]]]
    ELSE IF tag = "r" /\ Len(body) = 1 /\ body[1] \in ToolIds
    THEN [ok |-> TRUE, data |-> [NoEvent EXCEPT !.type = "tool_result", !.result = body[1]]]
    ELSE IF tag = "e" /\ Len(body) = 1 /\ body[1] \in ErrMsgs
    THEN [ok |-> TRUE, data |-> [NoEvent EXCEPT !.type = "error", !.error = body[1]]]
    ELSE IF tag = "u" /\ body = <<>>
    THEN [ok |-> TRUE, data |-> [NoEvent EXCEPT !.type = "unknown"]]
    ELSE IF tag = "D" /\ Cardinality(Bars(body)) = 1
    THEN LET b  == CHOOSE i \in Bars(body) : TRUE
             cs == SubSeq(body, 1, b - 1)
             rs == SubSeq(body, b + 1, Len(body))
         IN IF IsListField(cs) /\ IsListField(rs)
            THEN [ok |-> TRUE,
                  data |-> [NoEvent EXCEPT !.type = "done",
                                           !.toolCalls = cs, !.toolResults = rs]]
            ELSE [ok |-> FALSE, data |-> NoEvent]
    ELSE [ok |-> FALSE, data |-> NoEvent]

\* ---------------------------------------------------------------- messages
\* A Message; toolCalls/toolResults left undefined by the code are <<>>.
Msg(id, role, content) ==
  [id |-> id, role |-> role, content |-> content,
   toolCalls |-> <<>>, toolResults |-> <<>>]

\* Mutant: the other messages are dropped (a filter in place of the map).
setContentOfOnly(msgs, id, c) ==
  LET kept == SelectSeq(msgs, LAMBDA m : m.id = id)
  IN [i \in 1..Len(kept) |-> [kept[i] EXCEPT !.content = c]]

\* prev.map(msg => msg.id === assistantId ? {...msg, content} : msg)
setContent(msgs, id, c) ==
  [i \in 1..Len(msgs) |->
     IF msgs[i].id = id THEN [msgs[i] EXCEPT !.content = c] ELSE msgs[i]]

\* Mutant: the newest call is put first.
addToolCallFirst(msgs, id, tc) ==
  [i \in 1..Len(msgs) |->
     IF msgs[i].id = id
     THEN [msgs[i] EXCEPT !.toolCalls = <<tc>> \o @] ELSE msgs[i]]

\* prev.map(msg => msg.id === assistantId
\*   ? {...msg, toolCalls: [...(msg.toolCalls || []), data.toolCall]} : msg)
addToolCall(msgs, id, tc) ==
  [i \in 1..Len(msgs) |->
     IF msgs[i].id = id
     THEN [msgs[i] EXCEPT !.toolCalls = Append(@, tc)] ELSE msgs[i]]

\* the same for toolResults and data.result
addToolResult(msgs, id, r) ==
  [i \in 1..Len(msgs) |->
     IF msgs[i].id = id
     THEN [msgs[i] EXCEPT !.toolResults = Append(@, r)] ELSE msgs[i]]

\* prev.map(msg => msg.id === assistantId
\*   ? {...msg, toolCalls: data.toolCalls || [], toolResults: data.toolResults || []}
\*   : msg)
setTools(msgs, id, cs, rs) ==
  [i \in 1..Len(msgs) |->
     IF msgs[i].id = id
     THEN [msgs[i] EXCEPT !.toolCalls = orEmpty(cs), !.toolResults = orEmpty(rs)]
     ELSE msgs[i]]

\* --------------------------------------------------------- event dispatch
\* The state the read loop works on: React state (messages, currentToolCalls,
\* currentToolResults), the closure's assistantContent, the console log of
\* decoded events, and exc: the message of an exception in flight ("" none).
LoopState(msgs, ac, ctc, ctr, lg) ==
  [messages |-> msgs, assistantContent |-> ac,
   currentToolCalls |-> ctc, currentToolResults |-> ctr, log |-> lg, exc |-> ""]

\* Mutant: the content of the event replaces what was accumulated.
onContentReplace(st, id, data) ==
  [st EXCEPT !.assistantContent = data.content,
             !.messages = setContent(st.messages, id, data.content)]

onContent(st, id, data) ==
  LET ac == st.assistantContent \o data.content
  IN [st EXCEPT !.assistantContent = ac,
                !.messages = setContent(st.messages, id, ac)]

\* Mutant: the call is added to the message and not to the indicator's list.
onToolCallUnlisted(st, id, data) ==
  [st EXCEPT !.messages = addToolCall(st.messages, id, data.toolCall)]

onToolCall(st, id, data) ==
  [st EXCEPT !.currentToolCalls = Append(@, data.toolCall),
             !.messages = addToolCall(st.messages, id, data.toolCall)]

onToolResult(st, id, data) ==
  [st EXCEPT !.currentToolResults = Append(@, data.result),
             !.messages = addToolResult(st.messages, id, data.result)]

\* Mutant: done adds its lists to those built from the events before it.
onDoneAppending(st, id, data) ==
  [st EXCEPT !.messages =
     [i \in 1..Len(st.messages) |->
        IF st.messages[i].id = id
        THEN [st.messages[i] EXCEPT !.toolCalls = @ \o orEmpty(data.toolCalls),
                                    !.toolResults = @ \o orEmpty(data.toolResults)]
        ELSE st.messages[i]]]

onDone(st, id, data) ==
  [st EXCEPT !.messages = setTools(st.messages, id, data.toolCalls, data.toolResults)]

\* throw new Error(data.error)
onError(st, id, data) == [st EXCEPT !.exc = data.error]

\* Mutant: once a done event was received, later events are not applied.
dispatchUntilDone(st, id, data) ==
  IF \E i \in 1..(Len(st.log) - 1) : st.log[i].ev.type = "done" THEN st
  ELSE IF data.type = "content" THEN onContent(st, id, data)
  ELSE IF data.type = "tool_call" THEN onToolCall(st, id, data)
  ELSE IF data.type = "tool_result" THEN onToolResult(st, id, data)
  ELSE IF data.type = "done" THEN onDone(st, id, data)
  ELSE IF data.type = "error" THEN onError(st, id, data)
  ELSE st

\* The if/else-if chain on data.type of the read loop.
dispatch(st, id, data) ==
  IF data.type = "content" THEN onContent(st, id, data)
  ELSE IF data.type = "tool_call" THEN onToolCall(st, id, data)
  ELSE IF data.type = "tool_result" THEN onToolResult(st, id, data)
  ELSE IF data.type = "done" THEN onDone(st, id, data)
  ELSE IF data.type = "error" THEN onError(st, id, data)
  ELSE st

\* The if/else-if chain of the final pass: content and done only.
dispatchFinal(st, id, data) ==
  IF data.type = "content" THEN onContent(st, id, data)
  ELSE IF data.type = "done" THEN onDone(st, id, data)
  ELSE st

\* The body of the try block: parse, log, dispatch.  A SyntaxError thrown by
\* JSON.parse is an exception in flight like the one onError throws.
tryLine(st, id, line, final) ==
  LET jsonStr == trim(slice(line))
      p       == JSONparse(jsonStr)
      logged  == [st EXCEPT !.log = Append(@, [ev |-> p.data, final |-> final])]
  IN IF jsonStr = <<>> THEN st
     ELSE IF ~p.ok THEN [st EXCEPT !.exc = "SyntaxError"]
     ELSE IF final THEN dispatchFinal(logged, id, p.data)
     ELSE dispatch(logged, id, p.data)

\* Mutant: the catch block throws the exception on.
catchLineRethrow(st) == st

\* catch (e) { console.error(...) }: the exception ends here.
catchLine(st) == [st EXCEPT !.exc = ""]

\* One iteration of  for (const line of lines).
\* Mutant: the marker is not looked for.
processLineUnmarked(st, id, line, final) ==
  IF trim(line) = <<>> THEN st
  ELSE catchLine(tryLine(st, id, line, final))

processLine(st, id, line, final) ==
  IF trim(line) = <<>> THEN st
  ELSE IF ~startsWith(line) THEN st
  ELSE catchLine(tryLine(st, id, line, final))

\* for (const line of lines) { ... }; an exception that leaves an iteration
\* ends the loop.
RECURSIVE processLines(_, _, _, _)
processLines(st, id, lines, final) ==
  IF lines = <<>> \/ st.exc /= "" THEN st
  ELSE processLines(processLine(st, id, Head(lines), final), id, Tail(lines), final)

\* lines.pop() || ""
popped(lines) == lines[Len(lines)]
withoutLast(lines) == SubSeq(lines, 1, Len(lines) - 1)

\* ------------------------------------------------------------------- state
VARIABLES
  messages,            \* useState<Message[]>
  input,               \* useState("")
  isLoading,           \* useState(false)
  currentToolCalls,    \* useState<ToolCall[]>
  currentToolResults,  \* useState<ToolResult[]>
  pc,                  \* where handleSubmit is suspended: idle, fetching, reading
  assistantId,         \* let assistantId
  assistantContent,    \* let assistantContent
  buffer,              \* let buffer
  now,                 \* the last reading of Date.now()
  tick,                \* by how much Date.now() can differ between two readings
  wire,                \* bytes of the response body sent and not yet read
  recordsLeft,         \* records the backend may still send
  quota,               \* records the backend may send per request still to come
  stream,              \* every byte of the current response body, in order
  decoded,             \* every character decoder.decode returned, in order
  log,                 \* console.log("Received event:" / "Received final event:")
  body,                \* the messages of the last request body
  outcome,             \* how the last request ended: none, ok, failed
  asstPos,             \* index in messages of the last assistant placeholder
  prev,                \* the recorder: the stream of the request before, and its result
  conv,                \* backend: the Conversation Driver of each conversation
  conn,                \* backend: the ProviderConnection of each provider
  cap,                 \* backend: the configured cap on dispatch batches
  registry,            \* backend: the Tool Registry built by discovery
  tables,              \* MessageList: the tables it decided to display, per message
  mcp                  \* MCPStatus: its state and the health checks under way

vars ==
  <<messages, input, isLoading, currentToolCalls, currentToolResults, pc,
    assistantId, assistantContent, buffer, now, tick, wire, recordsLeft,
    quota, stream, decoded, log, body, outcome, asstPos, prev, conv, conn, cap,
    registry, tables, mcp>>

\* The state of the backend.
backendVars == <<conv, conn, cap, registry>>

\* The state of the components beside the chat: MessageList and MCPStatus.
panelVars == <<tables, mcp>>

\* The state of the chat client and of the response it reads.
clientVars ==
  <<messages, input, isLoading, currentToolCalls, currentToolResults, pc,
    assistantId, assistantContent, buffer, now, tick, wire, recordsLeft,
    quota, stream, decoded, log, body, outcome, asstPos, prev>>

\* What the user can type.
Inputs == {<<>>, <<SP>>, <<"q">>}

\* A record on the wire: the marker and a payload.
Rec(payload) == Marker \o payload

\* The lines the backend (or a proxy in between) may put on the stream.
Lines ==
  { Rec(<<"{", "c", "a", "}">>),
    Rec(<<"{", "c", "C3", "A9", "}">>),
    Rec(<<"{", "t", "x", "}">>),
    Rec(<<"{", "t", "y", "}">>),
    Rec(<<"{", "r", "x", "}">>),
    Rec(<<"{", "D", "x", "|", "x", "}">>),
    Rec(<<"{", "D", "~", "|", "~", "}">>),
    Rec(<<"{", "e", "m", "}">>),
    Rec(<<"{", "u", "}">>),
    Rec(<<"{", "c", "a">>),
    Rec(<<>>),
    <<":", "a">>,
    <<>> }

\* The records of a well-formed stream, a multi-byte character among them,
\* and one malformed record.
CoreLines ==
  { Rec(<<"{", "c", "C3", "A9", "}">>),
    Rec(<<"{", "t", "x", "}">>),
    Rec(<<"{", "r", "x", "}">>),
    Rec(<<"{", "D", "x", "|", "x", "}">>),
    Rec(<<"{", "c", "a">>) }

\* Failures of fetch and of reader.read().
NetErrors == {"Failed to fetch"}

\* The recorder before any request.
NoRecording ==
  [on |-> FALSE, has |-> FALSE, stream |-> <<>>, decoded |-> <<>>,
   message |-> [content |-> <<>>, toolCalls |-> <<>>, toolResults |-> <<>>]]

\* useState of MCPStatus: both providers down, loading; no health check yet.
MCPConstructed ==
  [status |-> [github |-> FALSE, playwright |-> FALSE], loading |-> TRUE,
   mounted |-> FALSE, interval |-> FALSE, started |-> 0, inflight |-> {},
   completed |-> 0, last |-> "none",
   before |-> [github |-> FALSE, playwright |-> FALSE], source |-> 0]

InitClient(q, rec, ticks) ==
  /\ tables = <<>>
  /\ mcp = MCPConstructed
  /\ messages = <<>>
  /\ input = <<>>
  /\ isLoading = FALSE
  /\ currentToolCalls = <<>>
  /\ currentToolResults = <<>>
  /\ pc = "idle"
  /\ assistantId = 0
  /\ assistantContent = <<>>
  /\ buffer = <<>>
  /\ now = 1
  /\ tick = ticks
  /\ wire = <<>>
  /\ recordsLeft = 0
  /\ quota = q
  /\ stream = <<>>
  /\ decoded = <<>>
  /\ log = <<>>
  /\ body = <<>>
  /\ outcome = "none"
  /\ asstPos = 0
  /\ prev = [NoRecording EXCEPT !.on = rec]

\* The component alone: no conversation is followed on the backend.
InitWith(q, rec, ticks) ==
  /\ InitClient(q, rec, ticks)
  /\ conv = <<>>
  /\ conn = <<>>
  /\ cap = 0
  /\ registry = <<>>

\* Date.now() within a request: not before the last reading and, where the
\* timer is coarse, possibly equal to it.
Clock == {now + d : d \in tick}

\* ----------------------------------------------------------------- actions
\* {isLoading && currentToolCalls.length > 0 && <ToolUsageIndicator .../>}
indicatorVisible == isLoading /\ Len(currentToolCalls) > 0

\* onChange of the text input (disabled while isLoading); the user stops
\* typing once the conversation has had its MaxSubmits requests.
Type(v) ==
  /\ ~isLoading
  /\ quota /= <<>>
  /\ input /= v
  /\ input' = v
  /\ UNCHANGED <<messages, isLoading, currentToolCalls, currentToolResults, pc,
                 assistantId, assistantContent, buffer, now, wire,
                 recordsLeft, quota, stream, decoded, log, body, outcome, asstPos, prev, tick, backendVars, panelVars>>

\* Mutant: the body is built from the messages state, which does not hold
\* the new user message yet.
requestBodyStale(msgs) ==
  [i \in 1..(Len(msgs) - 1) |-> [role |-> msgs[i].role, content |-> msgs[i].content]]

\* messages: [...messages, userMessage].map(m => ({role, content}))
requestBody(msgs) ==
  [i \in 1..Len(msgs) |-> [role |-> msgs[i].role, content |-> msgs[i].content]]

\* Mutant: only a request in flight stops a submit.
rejectedWhileLoadingOnly == isLoading

\* if (!input.trim() || isLoading) return;
rejected == trim(input) = <<>> \/ isLoading

\* handleSubmit up to the await of fetch.
Submit ==
  IF rejected
  THEN UNCHANGED vars
  ELSE \E t \in {now + 1} :   \* typing and submitting took time
    LET userMessage == Msg(t, "user", input)
    IN /\ now' = t
       /\ messages' = Append(messages, userMessage)
       /\ input' = <<>>
       /\ isLoading' = TRUE
       /\ currentToolCalls' = <<>>
       /\ currentToolResults' = <<>>
       /\ body' = requestBody(Append(messages, userMessage))
       /\ pc' = "fetching"
       /\ quota' = Tail(quota)
       /\ recordsLeft' = Head(quota)
       /\ outcome' = "none"
       /\ asstPos' = 0
       /\ stream' = <<>>
       /\ decoded' = <<>>
       /\ log' = <<>>
       /\ prev' = IF prev.on /\ pc = "idle" /\ outcome = "ok" /\ asstPos > 0
                  THEN [on |-> TRUE, has |-> TRUE, stream |-> stream,
                        decoded |-> decoded,
                        message |-> [content |-> messages[asstPos].content,
                                     toolCalls |-> messages[asstPos].toolCalls,
                                     toolResults |-> messages[asstPos].toolResults]]
                  ELSE prev
       /\ UNCHANGED <<assistantId, assistantContent, buffer, wire, tick, backendVars, panelVars>>

\* Mutant: the outer catch appends no message.
FailSilently(msgs, msg) ==
  \E t \in Clock :
    /\ now' = t
    /\ assistantContent' = <<>>
    /\ buffer' = <<>>
    /\ stream' = <<>>
    /\ decoded' = <<>>
    /\ messages' = msgs
    /\ isLoading' = FALSE
    /\ currentToolCalls' = <<>>
    /\ currentToolResults' = <<>>
    /\ pc' = "idle"
    /\ outcome' = "failed"
    /\ wire' = <<>>

\* catch (error) { append the error message } finally { ... }; the locals of
\* the try block (and the record of the broken stream) are gone.
Fail(msgs, msg) ==
  \E t \in Clock :
    /\ now' = t
    /\ assistantContent' = <<>>
    /\ buffer' = <<>>
    /\ stream' = <<>>
    /\ decoded' = <<>>
    /\ messages' = Append(msgs, Msg(t, "assistant", <<"Error: ", msg>>))
    /\ isLoading' = FALSE
    /\ currentToolCalls' = <<>>
    /\ currentToolResults' = <<>>
    /\ pc' = "idle"
    /\ outcome' = "failed"
    /\ wire' = <<>>

\* finally { setIsLoading(false); setCurrentToolCalls([]); setCurrentToolResults([]) }
\* Mutant: finally leaves isLoading as it is.
FinishStillLoading(msgs) ==
  /\ messages' = msgs
  /\ isLoading' = isLoading
  /\ currentToolCalls' = <<>>
  /\ currentToolResults' = <<>>
  /\ pc' = "idle"
  /\ outcome' = "ok"
  /\ wire' = <<>>

Finish(msgs) ==
  /\ messages' = msgs
  /\ isLoading' = FALSE
  /\ currentToolCalls' = <<>>
  /\ currentToolResults' = <<>>
  /\ pc' = "idle"
  /\ outcome' = "ok"
  /\ wire' = <<>>

\* fetch rejects.
FetchReject ==
  /\ pc = "fetching"
  /\ \E e \in NetErrors : Fail(messages, e)
  /\ UNCHANGED <<input, assistantId, recordsLeft, quota, log, body, asstPos, prev, tick, backendVars, panelVars>>

\* if (!response.ok) throw new Error("Failed to get response")
FetchNotOk ==
  /\ pc = "fetching"
  /\ Fail(messages, "Failed to get response")
  /\ UNCHANGED <<input, assistantId, recordsLeft, quota, log, body, asstPos, prev, tick, backendVars, panelVars>>

\* Mutant: assistantContent outlives the request.
staleContent == assistantContent

\* let assistantContent = ""
freshContent == <<>>

\* The response is OK: the placeholder is appended and the first read awaited.
FetchOk ==
  /\ pc = "fetching"
  /\ \E t \in Clock :
       /\ now' = t
       /\ assistantId' = t
       /\ messages' = Append(messages, Msg(t, "assistant", <<>>))
  /\ asstPos' = Len(messages) + 1
  /\ assistantContent' = freshContent
  /\ buffer' = <<>>
  /\ wire' = <<>>
  /\ pc' = "reading"
  /\ UNCHANGED <<input, isLoading, currentToolCalls, currentToolResults,
                 recordsLeft, quota, stream, decoded, log, body, outcome, prev, tick, backendVars, panelVars>>

\* The response is OK and has no body: reader is undefined.
FetchOkNoBody ==
  /\ pc = "fetching"
  /\ \E t \in Clock :
       /\ now' = t
       /\ assistantId' = t
       /\ Finish(Append(messages, Msg(t, "assistant", <<>>)))
  /\ asstPos' = Len(messages) + 1
  /\ assistantContent' = <<>>
  /\ UNCHANGED <<input, buffer, recordsLeft, quota, stream, decoded, log, body, prev, tick, backendVars, panelVars>>

\* The backend has not finished the response body: nothing sent yet, or the
\* last line it wrote ended with its newline.
srvOpen == IF stream = <<>> THEN TRUE ELSE stream[Len(stream)] = LF

\* The backend writes one line to the response body, with its newline or,
\* as the last thing it writes, without.
ServerSend(line, nl) ==
  /\ pc = "reading"
  /\ srvOpen
  /\ recordsLeft > 0
  /\ recordsLeft' = recordsLeft - 1
  /\ \E bytes \in {IF nl THEN Append(line, LF) ELSE line} :
        /\ bytes /= <<>>
        /\ wire' = wire \o bytes
        /\ stream' = stream \o bytes
  /\ UNCHANGED <<messages, input, isLoading, currentToolCalls, currentToolResults,
                 pc, assistantId, assistantContent, buffer, now, quota,
                 decoded, log, body, outcome, asstPos, prev, tick, backendVars, panelVars>>

\* Mutant: what follows the last newline of a chunk is thrown away.
dropIncomplete(lines) == <<>>

\* buffer = lines.pop() || ""
keepIncomplete(lines) == popped(lines)

\* reader.read() returns the next n bytes: decode, split, keep the incomplete
\* line, process the complete ones.
ReadChunk(n) ==
  /\ pc = "reading"
  /\ n \in 1..Len(wire)
  /\ \E text \in {decode(SubSeq(wire, 1, n))} :
     \E lines \in {split(buffer \o text)} :
     \E st \in {processLines(
                  LoopState(messages, assistantContent, currentToolCalls,
                            currentToolResults, log),
                  assistantId, withoutLast(lines), FALSE)} :
        /\ log' = st.log
        /\ IF st.exc /= ""
           THEN Fail(st.messages, st.exc)
           ELSE /\ decoded' = decoded \o text
                /\ buffer' = keepIncomplete(lines)
                /\ assistantContent' = st.assistantContent
                /\ messages' = st.messages
                /\ currentToolCalls' = st.currentToolCalls
                /\ currentToolResults' = st.currentToolResults
                /\ wire' = SubSeq(wire, n + 1, Len(wire))
                /\ UNCHANGED <<isLoading, pc, now, outcome, stream>>
  /\ UNCHANGED <<input, assistantId, recordsLeft, quota, body, asstPos, prev, tick, backendVars, panelVars>>

\* reader.read() returns done (the backend closed the body and every byte
\* was read): the final pass over the buffer, then finally.
ReadDone ==
  /\ pc = "reading"
  /\ wire = <<>>
  /\ \E st0 \in {LoopState(messages, assistantContent, currentToolCalls,
                           currentToolResults, log)} :
     \E st \in {IF buffer /= <<>>
                THEN processLines(st0, assistantId, split(buffer), TRUE)
                ELSE st0} :
        /\ log' = st.log
        /\ IF st.exc /= ""
           THEN Fail(st.messages, st.exc)
           ELSE /\ Finish(st.messages)
                /\ assistantContent' = st.assistantContent
                /\ UNCHANGED <<now, buffer, stream, decoded>>
  /\ UNCHANGED <<input, assistantId, recordsLeft, quota, body, asstPos, prev, tick, backendVars, panelVars>>

\* reader.read() rejects: the connection broke.
ReadError ==
  /\ pc = "reading"
  /\ \E e \in NetErrors : Fail(messages, e)
  /\ UNCHANGED <<input, assistantId, recordsLeft, quota, log, body, asstPos, prev, tick, backendVars, panelVars>>

\* What the client does, whatever the backend sends.
Client ==
  \/ \E v \in Inputs : Type(v)
  \/ Submit
  \/ FetchReject
  \/ FetchNotOk
  \/ FetchOk
  \/ FetchOkNoBody
  \/ \E n \in 1..Len(wire) : ReadChunk(n)
  \/ ReadDone
  \/ ReadError

\* A conversation of MaxSubmits requests.
Init == InitWith([i \in 1..MaxSubmits |-> IF i = 1 THEN MaxRecords ELSE LaterRecords], FALSE, {0, 1})

Next ==
  \/ Client
  \/ \E l \in Lines, nl \in BOOLEAN : ServerSend(l, nl)

Spec == Init /\ [][Next]_vars

\* One request, answered by a longer stream, on a timer fine enough that no
\* two readings of Date.now() are equal.
InitStream == InitWith(<<StreamRecords>>, FALSE, {1})

NextStream ==
  \/ Client
  \/ \E l \in CoreLines, nl \in BOOLEAN : ServerSend(l, nl)

SpecStream == InitStream /\ [][NextStream]_vars

\* Two requests with the recorder on: the second can be answered by the
\* stream of the first.
ReplayLines ==
  { Rec(<<"{", "c", "C3", "A9", "}">>),
    Rec(<<"{", "t", "x", "}">>),
    Rec(<<"{", "D", "x", "|", "x", "}">>) }

InitReplay == InitWith(<<ReplayRecords, ReplayRecords>>, TRUE, {0, 1})

NextReplay ==
  \/ Client
  \/ \E l \in ReplayLines, nl \in BOOLEAN : ServerSend(l, nl)

SpecReplay == InitReplay /\ [][NextReplay]_vars

\* Lines that carry no event: blank ones, lines without the marker (a
\* comment, another field with a payload after it), records with an empty
\* payload, and a record of a type the client does not know.
Noise ==
  { <<>>,
    <<SP>>,
    <<":", "a">>,
    <<"e", "v", "e", "n", "t", ":", "{", "t", "x", "}">>,
    Rec(<<>>),
    Rec(<<SP>>),
    Rec(<<"{", "u", "}">>) }

\* A stream with such lines among a tool call and some content.
NoiseLines == Noise \cup {Rec(<<"{", "t", "x", "}">>), Rec(<<"{", "c", "a", "}">>)}

InitNoise == InitWith(<<NoiseRecords>>, FALSE, {1})

NextNoise ==
  \/ Client
  \/ \E l \in NoiseLines, nl \in BOOLEAN : ServerSend(l, nl)

SpecNoise == InitNoise /\ [][NextNoise]_vars

\* Two requests followed to their end, the first answered by content, an
\* error event, a done event or a malformed record, the second by an empty
\* body.  fetch settles, and reader.read() returns what was sent and then
\* the end of the stream, or rejects: what the client can do next, it does.
FinishLines ==
  { Rec(<<"{", "c", "a", "}">>),
    Rec(<<"{", "e", "m", "}">>),
    Rec(<<"{", "D", "~", "|", "~", "}">>),
    Rec(<<"{", "c", "a">>) }

InitFinish == InitWith(<<FinishRecords, 0>>, FALSE, {1})

NextFinish ==
  \/ Client
  \/ \E l \in FinishLines, nl \in BOOLEAN : ServerSend(l, nl)

SpecFinish == InitFinish /\ [][NextFinish]_vars /\ WF_vars(Client)

\* Two requests answered by tool calls and content: the first by up to
\* ToolRecords records, the second by one.
ToolLines ==
  { Rec(<<"{", "t", "x", "}">>),
    Rec(<<"{", "t", "y", "}">>),
    Rec(<<"{", "c", "a", "}">>) }

InitTools == InitWith(<<ToolRecords, 1>>, FALSE, {1})

NextTools ==
  \/ Client
  \/ \E l \in ToolLines, nl \in BOOLEAN : ServerSend(l, nl)

SpecTools == InitTools /\ [][NextTools]_vars

\* One request answered by a tool call, its result and done events of which
\* one or both lists are absent.
DoneLines ==
  { Rec(<<"{", "t", "x", "}">>),
    Rec(<<"{", "r", "x", "}">>),
    Rec(<<"{", "D", "~", "|", "~", "}">>),
    Rec(<<"{", "D", "x", "|", "~", "}">>) }

InitDone == InitWith(<<DoneRecords>>, FALSE, {1})

NextDone ==
  \/ Client
  \/ \E l \in DoneLines, nl \in BOOLEAN : ServerSend(l, nl)

SpecDone == InitDone /\ [][NextDone]_vars

\* ---------------------------------------------------------- MessageList
\* The ids of messages are the decimal strings of Date.now(); the clock of
\* the model counts the milliseconds from the instant Epoch on.
Epoch == 1000

\* Number.prototype.toString: the decimal digits of a natural number.
RECURSIVE Digits(_)
Digits(n) == IF n < 10 THEN <<n>> ELSE Append(Digits(n \div 10), n % 10)

\* Date.now().toString() of the reading t.
toString(t) == Digits(Epoch + t)

\* Number(id)
RECURSIVE Number(_)
Number(ds) == IF ds = <<>> THEN 0 ELSE 10 * Number(SubSeq(ds, 1, Len(ds) - 1)) + ds[Len(ds)]

\* a <= b on strings: by the first character that differs, a prefix first.
RECURSIVE strLE(_, _)
strLE(a, b) ==
  IF a = <<>> THEN TRUE
  ELSE IF b = <<>> THEN FALSE
  ELSE IF Head(a) /= Head(b) THEN Head(a) < Head(b)
  ELSE strLE(Tail(a), Tail(b))

\* What the lookup gives when there is no such user message.
undefined == [id |-> 0, role |-> "undefined", content |-> <<>>,
              toolCalls |-> <<>>, toolResults |-> <<>>]

\* [...].sort((a, b) => Number(b.id) - Number(a.id))[0]: the first of the
\* elements with the greatest id (the sort is stable).
firstByIdDescending(ms) ==
  IF ms = <<>> THEN undefined
  ELSE ms[CHOOSE i \in 1..Len(ms) :
            /\ \A j \in 1..Len(ms) : Number(toString(ms[j].id)) <= Number(toString(ms[i].id))
            /\ \A j \in 1..(i - 1) : Number(toString(ms[j].id)) < Number(toString(ms[i].id))]

\* Mutant: the user messages are not filtered by id.
userMessageOfAny(msgs, message) ==
  firstByIdDescending(SelectSeq(msgs, LAMBDA m : m.role = "user"))

\* messages.filter(m => m.role === "user" && m.id <= message.id).sort(...)[0]
userMessageOf(msgs, message) ==
  firstByIdDescending(
    SelectSeq(msgs, LAMBDA m : m.role = "user"
                               /\ strLE(toString(m.id), toString(message.id))))

\* String.prototype.toLowerCase on the letters of the alphabet.
Lower ==
     ("A" :> "a") @@ ("B" :> "b") @@ ("C" :> "c") @@ ("D" :> "d") @@ ("E"
     :> "e") @@ ("F" :> "f") @@ ("G" :> "g") @@ ("H" :> "h") @@ ("I" :>
     "i") @@ ("J" :> "j") @@ ("K" :> "k") @@ ("L" :> "l") @@ ("M" :> "m")
     @@ ("N" :> "n") @@ ("O" :> "o") @@ ("P" :> "p") @@ ("Q" :> "q") @@
     ("R" :> "r") @@ ("S" :> "s") @@ ("T" :> "t") @@ ("U" :> "u") @@ ("V"
     :> "v") @@ ("W" :> "w") @@ ("X" :> "x") @@ ("Y" :> "y") @@ ("Z" :>
     "z")

toLowerCase(s) == [i \in 1..Len(s) |-> IF s[i] \in DOMAIN Lower THEN Lower[s[i]] ELSE s[i]]

\* String.prototype.includes: pat occurs somewhere in s.
includes(s, pat) == \E i \in 0..(Len(s) - Len(pat)) : SubSeq(s, i + 1, i + Len(pat)) = pat

\* The commits field of a tool result: absent, an array, or something else.
NoCommits == [kind |-> "absent", items |-> <<>>]
CommitsArray(items) == [kind |-> "array", items |-> items]
CommitsText == [kind |-> "string", items |-> <<>>]

\* r.commits && Array.isArray(r.commits) && r.commits.length > 0, for some r
hasCommits(message) ==
  \E i \in 1..Len(message.toolResults) :
    /\ message.toolResults[i].commits.kind = "array"
    /\ Len(message.toolResults[i].commits.items) > 0

\* userMessage?.content?.toLowerCase() || ""
userContentOf(msgs, message) == toLowerCase(userMessageOf(msgs, message).content)

askedForCommits(userContent) ==
  \/ includes(userContent, <<"c", "o", "m", "m", "i", "t">>)
  \/ includes(userContent, <<"c", "o", "m", "m", "i", "t", " ", "h", "i", "s", "t", "o", "r", "y">>)
  \/ includes(userContent, <<"c", "o", "m", "m", "i", "t", " ", "f", "r", "e", "q", "u", "e", "n", "c", "y">>)

askedForPullRequests(userContent) ==
  \/ includes(userContent, <<"p", "u", "l", "l", " ", "r", "e", "q", "u", "e", "s", "t">>)
  \/ includes(userContent, <<"p", "r">>)
  \/ includes(userContent, <<"p", "u", "l", "l", " ", "r", "e", "q", "u", "e", "s", "t", "s">>)

askedForIssues(userContent) ==
  /\ includes(userContent, <<"i", "s", "s", "u", "e">>)
  /\ ~includes(userContent, <<"p", "u", "l", "l", " ", "r", "e", "q", "u", "e", "s", "t">>)

isGeneralAnalysis(userContent) ==
  \/ includes(userContent, <<"a", "n", "a", "l", "y", "z", "e">>)
  \/ includes(userContent, <<"s", "h", "o", "w", " ", "m", "e">>)
  \/ includes(userContent, <<"r", "e", "p", "o", "s", "i", "t", "o", "r", "y", " ", "i", "n", "f", "o">>)
  \/ includes(userContent, <<"r", "e", "p", "o", "s", "i", "t", "o", "r", "y", " ", "d", "a", "t", "a">>)

\* const shouldShowCommits = hasCommits && (askedForCommits ||
\*   (isGeneralAnalysis && !askedForPullRequests && !askedForIssues)),
\* inside message.toolResults && message.toolResults.length > 0
shouldShowCommits(msgs, message) ==
  /\ message.role = "assistant"
  /\ Len(message.toolResults) > 0
  /\ hasCommits(message)
  /\ \E userContent \in {userContentOf(msgs, message)} :
       \/ askedForCommits(userContent)
       \/ /\ isGeneralAnalysis(userContent)
          /\ ~askedForPullRequests(userContent)
          /\ ~askedForIssues(userContent)

\* What users write.
Phrases ==
  { <<"s", "h", "o", "w", " ", "c", "o", "m", "m", "i", "t", "s">>,
    <<"A", "n", "a", "l", "y", "z", "e", " ", "v", "e", "r", "c", "e", "l", "/", "n", "e", "x", "t", ".", "j", "s">>,
    <<"a", "n", "a", "l", "y", "z", "e", " ", "e", "x", "p", "r", "e", "s", "s">>,
    <<"s", "h", "o", "w", " ", "m", "e", " ", "P", "R", "s">>,
    <<"l", "i", "s", "t", " ", "i", "s", "s", "u", "e", "s">>,
    <<"h", "e", "l", "l", "o">>,
    <<"a", "n", "a", "l", "y", "z", "e", " ", "i", "s", "s", "u", "e", "s">>,
    <<"p", "u", "l", "l", " ", "r", "e", "q", "u", "e", "s", "t", "s">> }

\* The tool results an assistant message can end up with.
ResultLists ==
  { <<>>,
    <<[commits |-> NoCommits]>>,
    <<[commits |-> CommitsArray(<<>>)]>>,
    <<[commits |-> CommitsArray(<<"c1">>)]>>,
    <<[commits |-> CommitsText]>>,
    <<[commits |-> NoCommits], [commits |-> CommitsArray(<<"c1">>)]>>,
    <<[commits |-> CommitsArray(<<>>)], [commits |-> CommitsArray(<<"c1", "c2">>)]>>,
    <<[commits |-> CommitsArray(<<"c1">>)], [commits |-> CommitsText]>> }

\* The conversations MessageList is given: a question and its answer.
Conversations ==
  { <<Msg(1, "user", text), [Msg(2, "assistant", <<"a">>) EXCEPT !.toolResults = rs]>> :
      text \in Phrases, rs \in ResultLists }

\* MessageList({ messages }): the parent hands over a conversation.
Props(msgs) ==
  /\ messages = <<>>
  /\ messages' = msgs
  /\ UNCHANGED <<input, isLoading, currentToolCalls, currentToolResults, pc,
                 assistantId, assistantContent, buffer, now, tick, wire, recordsLeft,
                 quota, stream, decoded, log, body, outcome, asstPos, prev,
                 backendVars, panelVars>>

\* messages.map(...): for each message, whether the commit table is displayed.
RenderList ==
  /\ tables' = [k \in 1..Len(messages) |->
                  [commits |-> shouldShowCommits(messages, messages[k])]]
  /\ UNCHANGED <<clientVars, backendVars, mcp>>

InitTables == InitWith(<<>>, FALSE, {1})

NextTables ==
  \/ \E msgs \in Conversations : Props(msgs)
  \/ RenderList

SpecTables == InitTables /\ [][NextTables]_vars

\* ------------------------------------------------------------- MCPStatus

\* How many health checks the panel starts in a run.
MaxChecks == 3

\* { github: false, playwright: false }
BothDown == [github |-> FALSE, playwright |-> FALSE]

\* The values of data.mcp_servers in a health reply that carries one.
ServerStatuses == [github : BOOLEAN, playwright : BOOLEAN]

\* How a health check can go:
\*   <<"ok", s>>   response.ok, the body has mcp_servers = s
\*   <<"bare">>    response.ok, the body has no mcp_servers
\*   <<"json">>    response.ok, response.json() rejects
\*   <<"status">>  the response is not OK
\*   <<"throws">>  fetch rejects
Answers ==
  { <<"ok", s>> : s \in ServerStatuses }
    \cup { <<"bare">>, <<"json">>, <<"status">>, <<"throws">> }

\* A check that does not succeed: network exception or non-OK HTTP status.
notSucceeded(answer) == answer[1] \in {"status", "throws"}

\* Mutant: a check that does not succeed leaves the status as it was.
checkStatusKeeping(m, answer) ==
  [m EXCEPT
     !.status = IF answer[1] = "ok" THEN answer[2]
                ELSE IF answer[1] = "bare" THEN BothDown
                ELSE @,
     !.loading = FALSE]

\* checkStatus from the reply on: setStatus on each branch of the try and
\* of the catch, setLoading(false) in the finally.
checkStatus(m, answer) ==
  [m EXCEPT
     !.status = IF answer[1] = "ok" THEN answer[2] ELSE BothDown,
     !.loading = FALSE]

\* A call of checkStatus up to its fetch: the request is under way.
startCheck(m) ==
  [m EXCEPT !.started = @ + 1, !.inflight = @ \cup {m.started + 1}]

\* useEffect on mount: the first check, then a poll every ten seconds.
Mount ==
  /\ ~mcp.mounted
  /\ mcp.started = 0
  /\ mcp' = [startCheck(mcp) EXCEPT !.mounted = TRUE, !.interval = TRUE]
  /\ UNCHANGED <<clientVars, backendVars, tables>>

\* The interval fires, whether or not an earlier check has come back.
Poll ==
  /\ mcp.interval
  /\ mcp.started < MaxChecks
  /\ mcp' = startCheck(mcp)
  /\ UNCHANGED <<clientVars, backendVars, tables>>

\* A check comes back; checks in flight can come back in any order.  The
\* state of a component that has been unmounted is no longer updated.
\* "last" is how the latest completed check went, "before" the status
\* shown until it completed and "source" the check the status comes from.
CheckEnds(id, answer) ==
  /\ id \in mcp.inflight
  /\ mcp' = IF mcp.mounted
              THEN [checkStatus(mcp, answer) EXCEPT
                      !.inflight = @ \ {id},
                      !.completed = @ + 1,
                      !.before = mcp.status,
                      !.source = id,
                      !.last = IF notSucceeded(answer) THEN "failed" ELSE answer[1]]
              ELSE [mcp EXCEPT !.inflight = @ \ {id}]
  /\ UNCHANGED <<clientVars, backendVars, tables>>

\* The effect's cleanup: clearInterval.
Unmount ==
  /\ mcp.mounted
  /\ mcp' = [mcp EXCEPT !.mounted = FALSE, !.interval = FALSE]
  /\ UNCHANGED <<clientVars, backendVars, tables>>

InitStatus == InitWith(<<>>, FALSE, {1})

NextStatus ==
  \/ Mount
  \/ Poll
  \/ \E id \in 1..MaxChecks, answer \in Answers : CheckEnds(id, answer)
  \/ Unmount

SpecStatus == InitStatus /\ [][NextStatus]_vars

\* ------------------------------------------------- vocabulary of the claims
\* What the claims compare of an assistant message.
Triple(m) ==
  [content |-> m.content, toolCalls |-> m.toolCalls, toolResults |-> m.toolResults]

Fresh == [content |-> <<>>, toolCalls |-> <<>>, toolResults |-> <<>>]

\* The last request got an OK response with a body and read it to its end.
ReadToEnd == pc = "idle" /\ outcome = "ok" /\ asstPos > 0 /\ stream /= <<>>

\* A request is reading its response, or has read it to its end.
InStream == (pc = "reading" \/ ReadToEnd) /\ asstPos > 0

Asst == Triple(messages[asstPos])

\* A line that is a record: the marker and a payload.
isRecord(line) == startsWith(line) /\ trim(slice(line)) /= <<>>

\* A record whose payload decodes; one whose payload does not.
decodable(line) == isRecord(line) /\ JSONparse(trim(slice(line))).ok
undecodable(line) == isRecord(line) /\ ~JSONparse(trim(slice(line))).ok

eventOf(line) == JSONparse(trim(slice(line))).data

\* The events of the decodable records among lines, in order.
eventsOf(lines) ==
  LET good == SelectSeq(lines, decodable)
  IN [i \in 1..Len(good) |-> eventOf(good[i])]

\* The events the console log shows, in order.
logged == [i \in 1..Len(log) |-> log[i].ev]

\* The pure fold of an event into the (content, toolCalls, toolResults) of an
\* assistant message: what each kind of event is to add.
step(m, e) ==
  IF e.type = "content" THEN [m EXCEPT !.content = @ \o e.content]
  ELSE IF e.type = "tool_call" THEN [m EXCEPT !.toolCalls = Append(@, e.toolCall)]
  ELSE IF e.type = "tool_result" THEN [m EXCEPT !.toolResults = Append(@, e.result)]
  ELSE IF e.type = "done"
       THEN [m EXCEPT !.toolCalls = IF e.toolCalls = Absent THEN <<>> ELSE e.toolCalls,
                      !.toolResults = IF e.toolResults = Absent THEN <<>> ELSE e.toolResults]
  ELSE m

RECURSIVE fold(_, _)
fold(m, evs) == IF evs = <<>> THEN m ELSE fold(step(m, Head(evs)), Tail(evs))

\* The newline-terminated lines of a text, and what follows the last newline.
terminated(text) == withoutLast(split(text))
tail(text) == popped(split(text))

\* The whole byte stream read as a single chunk, followed by the end of the
\* stream: the events logged and the assistant message reconstructed.
oneChunk(bytes) ==
  LET text == decode(bytes)
      st0  == LoopState(<<Msg(0, "assistant", <<>>)>>, <<>>, <<>>, <<>>, <<>>)
      st1  == processLines(st0, 0, terminated(text), FALSE)
      st2  == IF tail(text) /= <<>>
              THEN processLines(st1, 0, split(tail(text)), TRUE)
              ELSE st1
  IN [events |-> [i \in 1..Len(st2.log) |-> st2.log[i].ev],
      message |-> Triple(st2.messages[1])]

\* C1: chunking invariance.  However the bytes of a response were split into
\* chunks, the events decoded and the assistant message at the end of the
\* stream are those of the same bytes read as one chunk.
C1_ChunkingInvariance ==
  ReadToEnd =>
    /\ logged = oneChunk(stream).events
    /\ Asst = oneChunk(stream).message

\* C2: an error event is surfaced.  Once an error event was received, the
\* request has ended as failed and the last message of the conversation is an
\* assistant message carrying the error text.
C2_ErrorSurfaced ==
  \A i \in 1..Len(log) :
    log[i].ev.type = "error" =>
      /\ pc = "idle"
      /\ outcome = "failed"
      /\ messages[Len(messages)].role = "assistant"
      /\ messages[Len(messages)].content = <<"Error: ", log[i].ev.error>>

\* C3: an undecodable record is skipped.  While the stream is read, and at
\* its end when every record was newline-terminated, the events decoded are
\* exactly those of the decodable records received, in order; the assistant
\* message is the fold of these events; and no request fails for a record
\* that does not decode.
C3_BadRecordSkipped ==
  /\ (InStream /\ (pc = "reading" \/ buffer = <<>>)) =>
        /\ logged = eventsOf(terminated(decoded))
        /\ Asst = fold(Fresh, eventsOf(terminated(decoded)))
  /\ outcome = "failed" =>
        messages[Len(messages)].content /= <<"Error: ", "SyntaxError">>

\* A decodable record, an undecodable one and a decodable one were read, and
\* the stream was read to its end.
C3_Witness ==
  /\ ReadToEnd
  /\ buffer = <<>>
  /\ LET ls == terminated(decoded)
     IN /\ Len(ls) = 3
        /\ decodable(ls[1]) /\ undecodable(ls[2]) /\ decodable(ls[3])
        /\ eventOf(ls[1]).type = "content"
        /\ eventOf(ls[3]).type = "tool_call"
  /\ Len(log) = 2

\* C4: the final pass has the effect of the read loop.  At the end of the
\* stream the assistant message is the fold of the events of every decodable
\* record received, the one after the last newline included.
C4_FinalPassSameEffect ==
  ReadToEnd => Asst = fold(Fresh, eventsOf(split(decoded)))

\* C5: replay determinism.  When a request has read to its end the stream the
\* request before it read to its end (the same bytes, decoded to the same
\* text), the two assistant messages have the same content, toolCalls and
\* toolResults.
C5_ReplayDeterminism ==
  (ReadToEnd /\ prev.has /\ prev.stream = stream /\ prev.decoded = decoded)
    => Asst = prev.message

\* A stream with a content record was replayed, in other chunks than the
\* first time.
C5_Witness ==
  /\ ReadToEnd /\ prev.has /\ prev.stream = stream /\ prev.decoded = decoded
  /\ Asst.content /= <<>>

\* The tool calls and the tool results announced by a sequence of events.
callsOf(evs) ==
  LET tc == SelectSeq(evs, LAMBDA e : e.type = "tool_call")
  IN [i \in 1..Len(tc) |-> tc[i].toolCall]

resultsOf(evs) ==
  LET tr == SelectSeq(evs, LAMBDA e : e.type = "tool_result")
  IN [i \in 1..Len(tr) |-> tr[i].result]

\* The last event decoded is a done event that carries the tool calls and
\* tool results of all the events before it.
FullDone ==
  /\ log /= <<>>
  /\ LET d      == logged[Len(log)]
         before == SubSeq(logged, 1, Len(log) - 1)
     IN /\ d.type = "done"
        /\ d.toolCalls = callsOf(before)
        /\ d.toolResults = resultsOf(before)

\* C6: done agrees with the incremental lists.  Before any done event the
\* lists of the assistant message are those of the tool_call and tool_result
\* events received, in order; after a done event that carries the full
\* accumulated lists they still are.
C6_DoneKeepsLists ==
  /\ (InStream /\ pc = "reading" /\ \A i \in 1..Len(log) : logged[i].type /= "done") =>
        /\ Asst.toolCalls = callsOf(logged)
        /\ Asst.toolResults = resultsOf(logged)
  /\ (InStream /\ FullDone) =>
        /\ Asst.toolCalls = callsOf(SubSeq(logged, 1, Len(log) - 1))
        /\ Asst.toolResults = resultsOf(SubSeq(logged, 1, Len(log) - 1))

\* A tool call, its result and a done event with both were applied.
C6_Witness ==
  /\ InStream /\ FullDone
  /\ Asst.toolCalls = <<"x">>
  /\ Asst.toolResults = <<"x">>

\* C7: the request body.  While a request is awaited its body lists the
\* conversation as it stands, the new user message last: one entry per
\* message, in order, of exactly the message's role and content.
C7_RequestBody ==
  pc = "fetching" =>
    /\ Len(body) = Len(messages)
    /\ \A i \in 1..Len(body) :
         /\ DOMAIN body[i] = {"role", "content"}
         /\ body[i].role = messages[i].role
         /\ body[i].content = messages[i].content
    /\ body[Len(body)].role = "user"

\* A second request is awaited: its body carries the first exchange.
C7_Witness ==
  /\ pc = "fetching"
  /\ Len(body) = 3
  /\ body[2].role = "assistant"
  /\ body[2].content /= <<>>

\* ------------------------------------------------------------- the backend
\* The Conversation Driver, the Tool Registry with its ProviderConnections
\* and the Event Emitter, as the specification describes them (sections 3,
\* 4.2 to 4.4, 5 and 7).  Every event a driver emits is also applied by the
\* client's dispatch to the assistant message of that conversation.

\* Conversations running concurrently on one backend.
NConvs == 2
\* The largest cap on dispatch batches a backend is configured with.
MaxCap == 2

Providers == {"github", "playwright"}

\* The names a provider can advertise: the tools the model asks for, and one
\* more.
ToolNames == ToolIds \cup {"fetch"}

\* What the providers advertise when nothing is misconfigured.
Advertised == [p \in Providers |-> IF p = "github" THEN {"x"} ELSE {"y"}]

\* The same with a screenshot provider that does not offer y.
AdvertisedLess == [p \in Providers |-> IF p = "github" THEN {"x"} ELSE {}]

\* The names that more than one provider advertises.
collisions(adv) ==
  {t \in ToolNames : \E p, q \in Providers : p /= q /\ t \in adv[p] /\ t \in adv[q]}

\* The Tool Registry before discovery.
Undiscovered == [ok |-> FALSE, error |-> "", owner |-> <<>>]

\* Mutant: on a collision one of the providers silently gets the name.
discoverOverwrite(adv) ==
  [ok |-> TRUE, error |-> "",
   owner |-> [t \in UNION {adv[p] : p \in Providers} |->
                CHOOSE p \in Providers : t \in adv[p]]]

\* Tool Registry discovery: the merged tool set, each tool with the provider
\* that owns it, or a configuration error and no tool set.
discover(adv) ==
  IF collisions(adv) /= {}
  THEN [ok |-> FALSE, error |-> "ConfigurationError", owner |-> <<>>]
  ELSE [ok |-> TRUE, error |-> "",
        owner |-> [t \in UNION {adv[p] : p \in Providers} |->
                     CHOOSE p \in Providers : t \in adv[p]]]

\* Tool Registry: the provider that owns a tool (an invocation is named by
\* its tool).
Owner(tool) == registry.owner[tool]

\* What a model turn can request.
Batches == {<<>>, <<"x">>, <<"y">>, <<"x", "y">>}

Range(f) == {f[i] : i \in DOMAIN f}

\* No request in flight on a connection.
NoRequest == <<>>

\* StreamEvents, with the outcome of an invocation beside the wire record.
Emitted(ev, ok, kind) == [ev |-> ev, ok |-> ok, kind |-> kind]
ContentDelta == Emitted([NoEvent EXCEPT !.type = "content", !.content = <<"a">>], TRUE, "")
ToolCallStarted(x) == Emitted([NoEvent EXCEPT !.type = "tool_call", !.toolCall = x], TRUE, "")
ToolResult(x, ok, kind) == Emitted([NoEvent EXCEPT !.type = "tool_result", !.result = x], ok, kind)
TurnComplete(cs, rs) ==
  Emitted([NoEvent EXCEPT !.type = "done", !.toolCalls = cs, !.toolResults = rs], TRUE, "")
ErrorEvent(kind) == Emitted([NoEvent EXCEPT !.type = "error", !.error = kind], FALSE, kind)

\* The messages of a history: of the user, of the assistant, and the
\* tool-result message of an invocation with its outcome.
HistoryMsg(role) == [role |-> role, tool |-> "", ok |-> TRUE]
ToolResultMsg(x, ok) == [role |-> "tool-result", tool |-> x, ok |-> ok]

\* A Conversation Driver when the request arrives.
NewConversation ==
  [state |-> "awaiting-model", batches |-> 0, batch |-> <<>>, pending |-> {},
   running |-> {}, finished |-> <<>>, events |-> <<>>,
   history |-> <<HistoryMsg("user")>>, error |-> "",
   calls |-> <<>>, results |-> <<>>,
   view |-> LoopState(<<Msg(0, "assistant", <<>>)>>, <<>>, <<>>, <<>>, <<>>)]

\* Event Emitter: the event goes onto the stream, and the client applies it.
emit(cv, e) ==
  [cv EXCEPT !.events = Append(@, e),
             !.view = catchLine(dispatch(@, 0, e.ev)),
             !.calls = IF e.ev.type = "tool_call" THEN Append(@, e.ev.toolCall) ELSE @,
             !.results = IF e.ev.type = "tool_result" THEN Append(@, e.ev.result) ELSE @]

\* Mutant: the cap is noticed one batch late.
capReachedLate(cv) == cv.batches > cap

\* The hard iteration cap: no further batch once cap batches were dispatched.
capReached(cv) == cv.batches >= cap

\* Mutant: the model is called again as soon as every invocation was
\* submitted, with the results there are.
closeBatchEarly(cv) ==
  IF cv.pending = {}
  THEN [cv EXCEPT !.state = "awaiting-model", !.finished = <<>>,
                  !.history = @ \o cv.finished]
  ELSE [cv EXCEPT !.state = "dispatching-tools"]

\* Every invocation of the batch has completed: one tool-result message each
\* goes into the history and the model is called again.
closeBatch(cv) ==
  IF cv.pending = {} /\ cv.running = {}
  THEN [cv EXCEPT !.state = "awaiting-model",
                  !.finished = <<>>,
                  !.history = @ \o [i \in 1..Len(cv.batch) |->
                     CHOOSE m \in Range(cv.finished) : m.tool = cv.batch[i]]]
  ELSE [cv EXCEPT !.state = IF cv.pending = {} THEN "awaiting-tool-results"
                            ELSE "dispatching-tools"]

\* awaiting-model: the model answers with content, tool requests or both.
ModelTurn(c, content, reqs) ==
  /\ conv[c].state = "awaiting-model"
  /\ content \/ reqs /= <<>>
  /\ LET cv1 == IF content THEN emit(conv[c], ContentDelta) ELSE conv[c]
         cv2 == [cv1 EXCEPT !.history = Append(@, HistoryMsg("assistant"))]
     IN conv' = [conv EXCEPT ![c] =
          IF reqs = <<>>
          THEN [emit(cv2, TurnComplete(cv2.calls, cv2.results)) EXCEPT !.state = "done"]
          ELSE IF capReached(cv2)
          THEN [emit(cv2, ErrorEvent("ToolLoopExceeded"))
                  EXCEPT !.state = "failed", !.error = "ToolLoopExceeded"]
          ELSE [cv2 EXCEPT !.state = "dispatching-tools", !.batches = @ + 1,
                           !.batch = reqs, !.pending = Range(reqs)]]
  /\ UNCHANGED <<conn, cap, registry>>
  /\ UNCHANGED <<clientVars, panelVars>>

\* awaiting-model: the model call itself fails.
ModelFails(c) ==
  /\ conv[c].state = "awaiting-model"
  /\ conv' = [conv EXCEPT ![c] =
       [emit(@, ErrorEvent("ModelCallFailed"))
          EXCEPT !.state = "failed", !.error = "ModelCallFailed"]]
  /\ UNCHANGED <<conn, cap, registry>>
  /\ UNCHANGED <<clientVars, panelVars>>

\* Mutant: a request is sent on a connection whatever it carries.
mayDispatchBusy(p) == conn[p].alive

\* A request may be sent on a connection that has none in flight.
mayDispatch(p) == conn[p].inflight = NoRequest

\* Mutant: a failed invocation is reported with an error event.
settleAsError(cv, x, ok, kind) ==
  [emit(cv, IF ok THEN ToolResult(x, ok, kind) ELSE ErrorEvent(kind))
     EXCEPT !.running = @ \ {x},
            !.finished = Append(@, ToolResultMsg(x, ok))]

\* An invocation has ended, with a result or with a failure of some kind:
\* the tool_result event is emitted and the outcome kept for the history.
settle(cv, x, ok, kind) ==
  [emit(cv, ToolResult(x, ok, kind))
     EXCEPT !.running = @ \ {x},
            !.finished = Append(@, ToolResultMsg(x, ok))]

\* dispatching-tools: one invocation of the batch is submitted to the Tool
\* Registry.  A tool the registry does not know, or one of a provider that
\* is down, fails at once.
Dispatch(c, x) ==
  /\ conv[c].state = "dispatching-tools"
  /\ x \in conv[c].pending
  /\ LET cv1 == [emit(conv[c], ToolCallStarted(x)) EXCEPT !.pending = @ \ {x}]
     IN IF x \notin DOMAIN registry.owner
        THEN /\ conv' = [conv EXCEPT ![c] = closeBatch(settle(cv1, x, FALSE, "UnknownTool"))]
             /\ UNCHANGED conn
        ELSE IF ~conn[Owner(x)].alive
        THEN /\ conv' = [conv EXCEPT ![c] =
                  closeBatch(settle(cv1, x, FALSE, "ProviderUnavailable"))]
             /\ UNCHANGED conn
        ELSE /\ mayDispatch(Owner(x))
             /\ conn' = [conn EXCEPT ![Owner(x)].inflight = <<c, x>>]
             /\ conv' = [conv EXCEPT ![c] = closeBatch([cv1 EXCEPT !.running = @ \cup {x}])]
  /\ UNCHANGED <<cap, registry>>
  /\ UNCHANGED <<clientVars, panelVars>>

\* The provider answers an invocation, with a result or with a response the
\* Transport Client cannot parse.
Complete(c, x, ok) ==
  /\ x \in conv[c].running
  /\ conn[Owner(x)].inflight = <<c, x>>
  /\ conn' = [conn EXCEPT ![Owner(x)].inflight = NoRequest]
  /\ conv' = [conv EXCEPT ![c] =
       closeBatch(settle(@, x, ok, IF ok THEN "" ELSE "MalformedResponse"))]
  /\ UNCHANGED <<cap, registry>>
  /\ UNCHANGED <<clientVars, panelVars>>

\* The ProviderConnections of a backend where the providers of up are running
\* and advertise adv.
Connections(up, adv) ==
  [p \in Providers |-> [alive |-> p \in up, inflight |-> NoRequest, tools |-> adv[p]]]

\* What the connections advertise.
advertisedBy(cs) == [p \in Providers |-> cs[p].tools]

\* n requests arrive at a backend configured with one of the caps; the
\* providers of one of the sets ups are running, and discovery has merged
\* what they advertise.
InitBackend(n, caps, ups, adv) ==
  /\ InitClient(<<>>, FALSE, {1})
  /\ conv = [c \in 1..n |-> NewConversation]
  /\ conn \in {Connections(up, adv) : up \in ups}
  /\ cap \in caps
  /\ registry = discover(adv)

\* What the model may answer: content, tool requests, or both.
Replies == {r \in BOOLEAN \X Batches : r[1] \/ r[2] /= <<>>}

\* One conversation, under every cap up to MaxCap, with the screenshot
\* provider up or down.
InitDriver == InitBackend(1, 1..MaxCap, {Providers, {"github"}}, Advertised)

NextDriver ==
  \/ \E c \in DOMAIN conv, r \in Replies : ModelTurn(c, r[1], r[2])
  \/ \E c \in DOMAIN conv : ModelFails(c)
  \/ \E c \in DOMAIN conv, x \in ToolIds : Dispatch(c, x)
  \/ \E c \in DOMAIN conv, x \in ToolIds, ok \in BOOLEAN : Complete(c, x, ok)

SpecDriver == InitDriver /\ [][NextDriver]_vars

\* A model that answers either with its final content or with requests alone.
PlainReplies == {r \in Replies : r[1] = (r[2] = <<>>)}

NextPlain ==
  \/ \E c \in DOMAIN conv, r \in PlainReplies : ModelTurn(c, r[1], r[2])
  \/ \E c \in DOMAIN conv : ModelFails(c)
  \/ \E c \in DOMAIN conv, x \in ToolIds : Dispatch(c, x)
  \/ \E c \in DOMAIN conv, x \in ToolIds, ok \in BOOLEAN : Complete(c, x, ok)

\* One conversation with such a model, under every cap up to MaxCap.  Model
\* calls and tool invocations end: whatever can happen next does.
InitLoop == InitBackend(1, 1..MaxCap, {Providers}, Advertised)

SpecLoop == InitLoop /\ [][NextPlain]_vars /\ WF_vars(NextPlain)

\* One conversation and one batch at most, on a backend where every kind of
\* failure of an invocation can happen: the screenshot provider is running,
\* or down, or running without offering y.
InitFaults ==
  \/ InitBackend(1, {1}, {Providers, {"github"}}, Advertised)
  \/ InitBackend(1, {1}, {Providers}, AdvertisedLess)

SpecFaults == InitFaults /\ [][NextDriver]_vars

\* Process start: the providers are running, each advertising some of the
\* names, and the Tool Registry has not been built.
InitRegistry ==
  /\ InitClient(<<>>, FALSE, {1})
  /\ conv = <<>>
  /\ cap = 1
  /\ conn \in {Connections(Providers, adv) : adv \in [Providers -> SUBSET ToolNames]}
  /\ registry = Undiscovered

\* Discovery asks every provider for its tools and merges them.
Discover ==
  /\ registry = Undiscovered
  /\ registry' = discover(advertisedBy(conn))
  /\ UNCHANGED <<conv, conn, cap>>
  /\ UNCHANGED <<clientVars, panelVars>>

\* A provider process exits.
ProviderExits(p) ==
  /\ conn[p].alive
  /\ conn' = [conn EXCEPT ![p].alive = FALSE]
  /\ UNCHANGED <<conv, cap, registry>>
  /\ UNCHANGED <<clientVars, panelVars>>

NextRegistry ==
  \/ Discover
  \/ \E p \in Providers : ProviderExits(p)

SpecRegistry == InitRegistry /\ [][NextRegistry]_vars

\* NConvs conversations at once on a backend with both providers running.
InitShared == InitBackend(NConvs, {1}, {Providers}, Advertised)

\* There the providers answer every invocation with a result.
NextShared ==
  \/ \E c \in DOMAIN conv, r \in PlainReplies : ModelTurn(c, r[1], r[2])
  \/ \E c \in DOMAIN conv : ModelFails(c)
  \/ \E c \in DOMAIN conv, x \in ToolIds : Dispatch(c, x)
  \/ \E c \in DOMAIN conv, x \in ToolIds : Complete(c, x, TRUE)

SpecShared == InitShared /\ [][NextShared]_vars

\* The events a conversation has put on its stream, as the client decodes
\* them.
streamOf(c) == [i \in 1..Len(conv[c].events) |-> conv[c].events[i].ev]

\* How often x occurs in a list.
count(list, x) == Cardinality({i \in DOMAIN list : list[i] = x})

\* C8: in every run of a conversation the tool_call event of an invocation X
\* is on the event stream before the tool_result event of X (up to each of
\* its results X has at least as many calls as results), and the client appends
\* the calls and the results to the assistant message in their order of
\* arrival.
C8_CallBeforeResult ==
  \A c \in DOMAIN conv : \E es \in {streamOf(c)} :
    /\ \A n \in 1..Len(es) : es[n].type = "tool_result" =>
         count(resultsOf(SubSeq(es, 1, n)), es[n].result)
           <= count(callsOf(SubSeq(es, 1, n)), es[n].result)
    /\ conv[c].view.messages[1].toolCalls = callsOf(es)
    /\ conv[c].view.messages[1].toolResults = resultsOf(es)

\* Two invocations of one batch were started in one order and answered in
\* the other.
C8_Witness ==
  \E c \in DOMAIN conv :
    /\ conv[c].view.messages[1].toolCalls = <<"x", "y">>
    /\ conv[c].view.messages[1].toolResults = <<"y", "x">>

\* A conversation has ended.
ended(c) == conv[c].state \in {"done", "failed"}

\* The model turns of a conversation that asked for no tool: those that ended
\* it with a done event.
CapRespected ==
  \A c \in DOMAIN conv :
    /\ conv[c].batches <= cap
    /\ conv[c].error = "ToolLoopExceeded" =>
         /\ conv[c].state = "failed"
         /\ conv[c].batches = cap
         /\ streamOf(c)[Len(streamOf(c))].type = "error"
    /\ conv[c].state = "done" =>
         /\ conv[c].error = ""
         /\ streamOf(c)[Len(streamOf(c))].type = "done"
    /\ (conv[c].state = "awaiting-model" /\ conv[c].batches > 0) =>
         Len(SelectSeq(conv[c].history, LAMBDA m : m.role = "tool-result")) >= conv[c].batches

\* C9: the Conversation Driver never loops for ever.  Under a cap of N no
\* more than N dispatch batches occur; a driver that failed with
\* ToolLoopExceeded dispatched exactly N, not N + 1; a model turn with
\* content and no tool request ends the conversation in done; and every
\* conversation ends.
C9_LoopBounded == []CapRespected /\ <>(\A c \in DOMAIN conv : ended(c))

\* The model asked for a tool on every turn and the driver gave up after as
\* many batches as the largest cap allows.
C9_Witness ==
  \E c \in DOMAIN conv :
    /\ cap = MaxCap
    /\ conv[c].state = "failed"
    /\ conv[c].error = "ToolLoopExceeded"
    /\ conv[c].batches = MaxCap
    /\ Len(callsOf(streamOf(c))) >= MaxCap

\* The invocations in flight on the connection of provider p, over all
\* conversations.
inflightOn(p) ==
  {i \in (DOMAIN conv) \X ToolIds : i[2] \in conv[i[1]].running /\ Owner(i[2]) = p}

\* C10: at every moment each ProviderConnection has at most one request in
\* flight, over all the conversations running at once: two invocations on
\* the same provider never overlap, and the connection knows the one it
\* carries.
C10_OneInFlight ==
  \A p \in Providers :
    /\ Cardinality(inflightOn(p)) <= 1
    /\ inflightOn(p) = IF conn[p].inflight = NoRequest THEN {} ELSE {conn[p].inflight}

\* Invocations on different providers overlap, while a second conversation
\* waits for the connection the first one is using.
C10_Witness ==
  \E c, d \in DOMAIN conv :
    /\ c /= d
    /\ conv[c].running = {"x"}
    /\ conv[d].running = {"y"}
    /\ "x" \in conv[d].pending

\* The messages of a history after the last message of the assistant: what
\* was fed back to the model for its last requests.
fedBack(h) ==
  LET last == CHOOSE i \in 1..Len(h) :
                /\ h[i].role = "assistant"
                /\ \A j \in (i + 1)..Len(h) : h[j].role /= "assistant"
  IN SubSeq(h, last + 1, Len(h))

\* C11: the Conversation Driver does not start the next model call until
\* every invocation of the current batch has completed, with or without
\* success: whenever it is about to call the model after a batch, nothing of
\* the batch is pending or running, every tool_call has its tool_result, and
\* the history holds exactly one tool-result message for each requested
\* invocation of the batch, in the order of the requests; while the batch is
\* under way no result has been fed back.
C11_BatchBeforeModel ==
  \A c \in DOMAIN conv : \E cv \in {conv[c]} :
    /\ (cv.state = "awaiting-model" /\ cv.batches > 0) =>
         /\ cv.pending = {} /\ cv.running = {}
         /\ Len(resultsOf(streamOf(c))) = Len(callsOf(streamOf(c)))
         /\ \E fed \in {fedBack(cv.history)} :
              /\ [i \in 1..Len(fed) |-> fed[i].tool] = cv.batch
              /\ \A i \in 1..Len(fed) : fed[i].role = "tool-result"
    /\ cv.state \in {"dispatching-tools", "awaiting-tool-results"} =>
         cv.history[Len(cv.history)].role = "assistant"

\* A batch of two invocations that ended in the order opposite to the
\* requests, one of them failing, has been fed back to the model.
C11_Witness ==
  \E c \in DOMAIN conv :
    /\ conv[c].state = "awaiting-model"
    /\ conv[c].batch = <<"x", "y">>
    /\ resultsOf(streamOf(c)) = <<"y", "x">>
    /\ fedBack(conv[c].history) = <<ToolResultMsg("x", FALSE), ToolResultMsg("y", TRUE)>>

\* The errors that end a conversation, and the failures of one invocation.
Fatal == {"ToolLoopExceeded", "ModelCallFailed"}
PerInvocation == {"ProviderUnavailable", "UnknownTool", "MalformedResponse"}

\* The outcome of the last invocation of tool x in a list of emitted events.
outcomeIn(es, x) ==
  LET last == CHOOSE i \in 1..Len(es) :
                /\ es[i].ev.type = "tool_result" /\ es[i].ev.result = x
                /\ \A j \in (i + 1)..Len(es) :
                     ~(es[j].ev.type = "tool_result" /\ es[j].ev.result = x)
  IN es[last].ok

\* C12: a failure of one invocation (provider unavailable, unknown tool,
\* malformed response) does not abort the conversation.  It is a tool_call
\* event followed by a failed tool_result event; the history gets it as a
\* failed tool-result message; the driver goes back to awaiting-model when
\* the batch is over; and only the fatal errors put an error event on the
\* stream, as its last event, with the driver in failed.
C12_FailureFoldedIn ==
  \A c \in DOMAIN conv : \E cv \in {conv[c]} : \E es \in {cv.events} :
    /\ \A n \in 1..Len(es) :
         /\ (es[n].ev.type = "tool_result" /\ ~es[n].ok) =>
              /\ es[n].kind \in PerInvocation
              /\ count(resultsOf(SubSeq(streamOf(c), 1, n)), es[n].ev.result)
                   <= count(callsOf(SubSeq(streamOf(c), 1, n)), es[n].ev.result)
         /\ es[n].ev.type = "error" =>
              /\ es[n].ev.error \in Fatal
              /\ n = Len(es)
              /\ cv.state = "failed"
    /\ cv.state = "failed" =>
         /\ cv.error \in Fatal
         /\ es[Len(es)].ev.type = "error"
    /\ cv.state \in {"dispatching-tools", "awaiting-tool-results"} =>
         cv.pending \cup cv.running /= {}
    /\ (cv.state = "awaiting-model" /\ cv.batches > 0) =>
         \E fed \in {fedBack(cv.history)} :
           \A i \in 1..Len(fed) : fed[i].ok = outcomeIn(es, fed[i].tool)

\* A conversation ended with done after a batch in which one invocation got
\* a malformed response and the other asked for a tool nobody offers.
C12_Witness ==
  \E c \in DOMAIN conv :
    /\ conv[c].state = "done"
    /\ \E i, j \in 1..Len(conv[c].events) :
         /\ conv[c].events[i].kind = "MalformedResponse"
         /\ conv[c].events[j].kind = "UnknownTool"
    /\ conv[c].history[Len(conv[c].history)].role = "assistant"
    /\ \E k \in 1..Len(conv[c].history) : conv[c].history[k] = ToolResultMsg("y", FALSE)

\* Discovery has run.
discovered == registry /= Undiscovered

\* C13: if two providers advertise a tool of the same name, Tool Registry
\* discovery fails with a configuration error and produces no merged tool
\* set; without such a name it produces the set of all advertised tools,
\* each owned by the provider that advertised it, so that no descriptor is
\* replaced by another provider's.
C13_CollisionFailsDiscovery ==
  discovered =>
    \E adv \in {advertisedBy(conn)} :
      IF \E p, q \in Providers : p /= q /\ adv[p] \cap adv[q] /= {}
      THEN /\ ~registry.ok
           /\ registry.error = "ConfigurationError"
           /\ DOMAIN registry.owner = {}
      ELSE /\ registry.ok
           /\ DOMAIN registry.owner = UNION {adv[p] : p \in Providers}
           /\ \A t \in DOMAIN registry.owner : t \in adv[registry.owner[t]]

\* Both providers advertised fetch, along with their own tools, and
\* discovery has run.
C13_Witness ==
  /\ discovered
  /\ "fetch" \in conn["github"].tools \cap conn["playwright"].tools
  /\ "x" \in conn["github"].tools
  /\ "y" \in conn["playwright"].tools
  /\ ~registry.ok

\* C14: while the stream is open no event is applied from a record before
\* its terminating newline has been received.  What follows the last newline
\* received stays in the buffer for the next chunk, and the events applied
\* are those of the newline-terminated records received, each exactly once
\* and in order, none of them by the final pass.
C14_TerminatedRecordsOnce ==
  pc = "reading" =>
    \E evs \in {eventsOf(terminated(decoded))} :
      /\ buffer = tail(decoded)
      /\ logged = evs
      /\ \A i \in 1..Len(log) : ~log[i].final
      /\ currentToolCalls = callsOf(evs)
      /\ currentToolResults = resultsOf(evs)

\* A record has been applied, the beginning of the next one waits in the
\* buffer, and the rest of it is still on its way.
C14_Witness ==
  /\ pc = "reading"
  /\ log /= <<>>
  /\ buffer /= <<>>
  /\ wire /= <<>>
  /\ currentToolCalls /= <<>>

\* The content payloads of the content events of a list, concatenated in
\* order.
RECURSIVE contentOf(_)
contentOf(evs) ==
  IF evs = <<>> THEN <<>>
  ELSE (IF Head(evs).type = "content" THEN Head(evs).content ELSE <<>>)
         \o contentOf(Tail(evs))

\* C15: after every applied event the content of the assistant message is
\* the concatenation, in stream order, of the content payloads of the
\* content events applied so far in the request; tool_call, tool_result and
\* done events add nothing to it.
C15_ContentIsConcatenation ==
  InStream =>
    /\ Asst.content = contentOf(logged)
    /\ pc = "reading" => assistantContent = contentOf(logged)

\* A content event was applied, then a tool call and a done event, and the
\* content is still there.
C15_Witness ==
  /\ InStream
  /\ Asst.content /= <<>>
  /\ \E i, j, k \in 1..Len(log) :
       /\ i < j /\ j < k
       /\ log[i].ev.type = "content"
       /\ log[j].ev.type = "tool_call"
       /\ log[k].ev.type = "done"

\* The types of event the client acts on.
KnownTypes == {"content", "tool_call", "tool_result", "done", "error"}

\* A line that carries an event the client acts on.
meaningful(line) == decodable(line) /\ eventOf(line).type \in KnownTypes

\* C16: a stream line that is blank, does not start with the marker, has an
\* empty payload after the marker, or decodes to an event of an unknown type
\* leaves messages, currentToolCalls and currentToolResults as they are, in
\* the read loop and in the final pass; so what the client has built is what
\* the other lines alone would have built.
C16_NoiseChangesNothing ==
  pc = "reading" =>
    /\ \A line \in Noise, final \in BOOLEAN :
         \E st \in {processLine(LoopState(messages, assistantContent, currentToolCalls,
                                          currentToolResults, log),
                                assistantId, line, final)} :
           /\ st.messages = messages
           /\ st.currentToolCalls = currentToolCalls
           /\ st.currentToolResults = currentToolResults
           /\ st.assistantContent = assistantContent
           /\ st.exc = ""
    /\ \E evs \in {eventsOf(SelectSeq(terminated(decoded), meaningful))} :
         /\ Asst = fold(Fresh, evs)
         /\ currentToolCalls = callsOf(evs)
         /\ currentToolResults = resultsOf(evs)

\* A tool call was applied, then a record of an unknown type and a line
\* without the marker went through the loop, and the tool call is all there
\* is.
C16_Witness ==
  /\ pc = "reading"
  /\ buffer = <<>>
  /\ Len(terminated(decoded)) = NoiseRecords
  /\ terminated(decoded)[1] = Rec(<<"{", "t", "x", "}">>)
  /\ terminated(decoded)[NoiseRecords] \in Noise \ {<<>>, <<SP>>}
  /\ Asst.toolCalls = <<"x">>
  /\ currentToolCalls = <<"x">>

\* C17: every submitted request finishes once the stream closes or fails.
\* isLoading is true exactly while handleSubmit is under way, and a request
\* under way leads to handleSubmit back at rest with isLoading false, so
\* that a new submit is possible, whether the stream closed normally, the
\* response was not OK or an exception ended the reading.
C17_RequestFinishes ==
  /\ [](isLoading <=> pc /= "idle")
  /\ isLoading ~> (~isLoading /\ pc = "idle" /\ outcome \in {"ok", "failed"})

\* A request ended by an exception while reading, after some events, and then
\* a second request, submitted and finished normally.
C17_Witness ==
  /\ ~isLoading
  /\ outcome = "ok"
  /\ quota = <<>>
  /\ \E i \in 1..Len(messages) :
       /\ messages[i].content = <<"Error: ", "Failed to fetch">>
       /\ i > 2
       /\ messages[i - 1].role = "assistant"
       /\ messages[i - 1].content /= <<>>

\* The positions of the user messages before position k of the conversation.
usersBefore(k) == {i \in 1..(k - 1) : messages[i].role = "user"}

\* C18: for every assistant message, the user message MessageList bases the
\* table-display decision on is the most recent user message before that
\* assistant message in the conversation, never one sent after it.
C18_LatestPrecedingUser ==
  \A k \in 1..Len(messages) :
    messages[k].role = "assistant" =>
      /\ usersBefore(k) /= {}
      /\ userMessageOf(messages, messages[k])
           = messages[CHOOSE i \in usersBefore(k) : \A j \in usersBefore(k) : j <= i]

\* An assistant message with tool results has a user message before it and
\* another user message after it.
C18_Witness ==
  \E k \in 2..Len(messages) :
    /\ messages[k].role = "assistant"
    /\ messages[k].toolResults /= <<>>
    /\ messages[k - 1].role = "user"
    /\ \E j \in (k + 1)..Len(messages) : messages[j].role = "user"

\* The user names pull requests: in full, or with pr or prs as a word of its
\* own.
namesPullRequests(userContent) ==
  \/ includes(userContent, <<"p", "u", "l", "l", " ", "r", "e", "q", "u", "e", "s", "t">>)
  \/ includes(<<" ">> \o userContent \o <<" ">>, <<" ", "p", "r", " ">>)
  \/ includes(<<" ">> \o userContent \o <<" ">>, <<" ", "p", "r", "s", " ">>)

\* The question an answer at position k of the conversation belongs to, in
\* lower case.
questionOf(k) ==
  toLowerCase(messages[CHOOSE i \in usersBefore(k) : \A j \in usersBefore(k) : j <= i].content)

\* C19: the commit-history table of an assistant message is displayed if and
\* only if its tool results contain a non-empty commits array and either the
\* user asked for commits, or the request is a general analysis in which the
\* user asked specifically for neither pull requests nor issues.
C19_CommitTableShown ==
  \A k \in 1..Len(tables) :
    messages[k].role = "assistant" =>
      \E q \in {questionOf(k)} :
        tables[k].commits <=>
          /\ hasCommits(messages[k])
          /\ \/ askedForCommits(q)
             \/ /\ isGeneralAnalysis(q)
                /\ ~namesPullRequests(q)
                /\ ~askedForIssues(q)


\* C20: whenever a health check does not succeed (network exception or
\* non-OK HTTP status), the panel shows github and playwright as down,
\* whatever it showed before; and the initial loading state lasts until
\* the first check completes and ends with it whatever its outcome.
C20_FailedCheckShowsDown ==
  /\ [](mcp.last = "failed" => mcp.status = BothDown)
  /\ [](mcp.loading <=> mcp.completed = 0)
  /\ [][\A id \in 1..MaxChecks, answer \in Answers :
          (CheckEnds(id, answer) /\ mcp.mounted /\ notSucceeded(answer))
            => (mcp'.status = BothDown /\ ~mcp'.loading)]_vars

\* A failed check has overridden an earlier up status: two checks have
\* completed, the first showed both providers up, the second did not
\* succeed, and a third is under way.
C20_Witness ==
  /\ mcp.mounted
  /\ mcp.last = "failed"
  /\ mcp.completed = 2
  /\ mcp.before = [github |-> TRUE, playwright |-> TRUE]
  /\ mcp.status = BothDown
  /\ ~mcp.loading
  /\ mcp.inflight /= {}

\* C21: the tool-usage indicator is visible exactly while a request is in
\* flight and a tool_call event of that request has been applied; the list
\* it is given is then every tool call of that request so far, in arrival
\* order; the list is empty when a request has just been submitted and when
\* no request is in flight, so no call of an earlier request is shown.
C21_IndicatorShowsCalls ==
  /\ indicatorVisible <=> (pc /= "idle" /\ callsOf(logged) /= <<>>)
  /\ pc /= "idle" => currentToolCalls = callsOf(logged)
  /\ pc = "idle" => currentToolCalls = <<>>

\* The first request was answered by the calls x and y; the second request
\* has received the call y, and the indicator lists that call alone.
C21_Witness ==
  /\ pc = "reading"
  /\ Len(body) = 3
  /\ messages[2].toolCalls = <<"x", "y">>
  /\ indicatorVisible
  /\ currentToolCalls = <<"y">>

\* The user messages of a conversation.
usersIn(msgs) == SelectSeq(msgs, LAMBDA m : m.role = "user")

\* Nothing but whitespace, or nothing at all.
whitespaceOnly(text) == \A i \in 1..Len(text) : text[i] \in {SP, LF}

\* C22: at most one chat request is in flight.  A submit issued while
\* isLoading is true, or with whitespace-only input, changes no state: no
\* message is appended and no request sent.  No step taken while a request is
\* in flight appends a user message or sends a request, and a request is
\* sent only when none is in flight.
C22_OneRequestInFlight ==
  [][ /\ (Submit /\ (isLoading \/ whitespaceOnly(input))) => UNCHANGED vars
      /\ isLoading =>
           /\ body' = body
           /\ quota' = quota
           /\ usersIn(messages') = usersIn(messages)
      /\ body' /= body =>
           /\ ~isLoading /\ pc = "idle" /\ ~whitespaceOnly(input)
           /\ isLoading' /\ pc' = "fetching"
           /\ Len(messages') = Len(messages) + 1 ]_vars

\* The second request is in flight, sent after the first had ended; the
\* input is empty and a submit now is turned away.
C22_Witness ==
  /\ isLoading
  /\ pc = "reading"
  /\ Len(body) = 3
  /\ Len(usersIn(messages)) = 2
  /\ whitespaceOnly(input)
  /\ rejected

\* C23: the events of a request modify only the assistant placeholder
\* created for that request.  Whatever the readings of Date.now(), a message
\* of the conversation changes only while the response is read, and only if
\* it is that placeholder: every user message, every earlier assistant
\* message and every error message stays as it is.
C23_OnlyPlaceholderModified ==
  [][\A i \in 1..Len(messages) :
       messages'[i] /= messages[i] => (pc = "reading" /\ i = asstPos)]_vars

\* C24: a done event whose toolCalls (toolResults) field is absent leaves the
\* assistant message with an empty toolCalls (toolResults) list, whatever
\* tool_call and tool_result events were applied before it, in the read loop
\* and in the final pass alike.
C24_AbsentListEmpties ==
  (asstPos > 0 /\ log /= <<>>) =>
    \E d \in {logged[Len(log)]} :
      d.type = "done" =>
        /\ d.toolCalls = Absent => Asst.toolCalls = <<>>
        /\ d.toolResults = Absent => Asst.toolResults = <<>>

\* A tool call and its result were applied, then a done event without lists.
C24_Witness ==
  /\ asstPos > 0
  /\ Len(log) = 3
  /\ logged[1].type = "tool_call"
  /\ logged[2].type = "tool_result"
  /\ logged[3].type = "done"
  /\ logged[3].toolCalls = Absent
  /\ logged[3].toolResults = Absent
  /\ Asst.toolCalls = <<>>
  /\ Asst.toolResults = <<>>

\* A done event was received and other events after it.
afterDone == \E k \in 1..(Len(log) - 1) : logged[k].type = "done"

\* C25: a done event does not end the stream for the client.  While the
\* response is read, the records that arrive after a done event are decoded
\* and applied like those before it: the events decoded are those of every
\* decodable record received, and the assistant message is the fold of all
\* of them, those after the done event included.
C25_DoneNotTerminal ==
  (pc = "reading" /\ asstPos > 0 /\ afterDone) =>
    /\ logged = eventsOf(terminated(decoded))
    /\ Asst = fold(Fresh, logged)

\* A done event emptied the lists, and a tool call that arrived after it
\* was added to the assistant message.
C25_Witness ==
  /\ pc = "reading"
  /\ asstPos > 0
  /\ Len(log) = 3
  /\ logged[1].type = "tool_call"
  /\ logged[2].type = "done"
  /\ logged[2].toolCalls = Absent
  /\ logged[3].type = "tool_call"
  /\ Asst.toolCalls = <<logged[3].toolCall>>

\* The step in which a request ends in the outer catch.
failsNow == pc /= "idle" /\ pc' = "idle" /\ outcome' = "failed"

\* The failure messages that reach the outer catch.
FailureMessages == NetErrors \cup {"Failed to get response"}

\* C26: a request that fails with an exception reaching the outer handler
\* (fetch rejects, the status is not OK, the read fails mid-stream) ends in a
\* step that appends exactly one assistant message, "Error: " followed by the
\* failure message, and leaves every other message as it was.  When the
\* failure comes before the body is read, no placeholder was created: the
\* message before the error message is the user's.  When it comes mid-stream
\* the placeholder keeps what it had accumulated.
C26_FailureAppendsOneMessage ==
  [][ /\ (FetchReject \/ FetchNotOk \/ ReadError) => failsNow
      /\ failsNow =>
           /\ Len(messages') = Len(messages) + 1
           /\ SubSeq(messages', 1, Len(messages)) = messages
           /\ \E m \in {messages'[Len(messages')]} :
                /\ m.role = "assistant"
                /\ Len(m.content) = 2
                /\ m.content[1] = "Error: "
                /\ m.content[2] \in FailureMessages
                /\ FetchNotOk => m.content[2] = "Failed to get response"
           /\ pc = "fetching" =>
                /\ messages[Len(messages)].role = "user"
                /\ asstPos = 0
           /\ pc = "reading" =>
                /\ asstPos = Len(messages)
                /\ Triple(messages'[asstPos]) = Asst ]_vars

\* A read failed mid-stream: the error message follows a placeholder that
\* keeps its two tool calls.
C26_Witness ==
  /\ pc = "idle"
  /\ outcome = "failed"
  /\ asstPos > 0
  /\ Len(messages) = asstPos + 1
  /\ messages[asstPos].toolCalls = <<"x", "y">>
  /\ messages[Len(messages)].content = <<"Error: ", "Failed to fetch">>

\* An error message of the outer catch.
isError(m) == m.role = "assistant" /\ Len(m.content) = 2 /\ m.content[1] = "Error: "

\* Every request of the conversation is its user message followed by at most
\* one placeholder and at most one error message, in that order.
exchanges ==
  \A i \in 1..Len(messages) :
    IF i = 1 THEN messages[i].role = "user"
    ELSE messages[i - 1].role = "assistant" =>
           \/ messages[i].role = "user"
           \/ /\ isError(messages[i])
              /\ ~isError(messages[i - 1])
              /\ messages[i - 2].role = "user"

\* C27: the message list is append-only.  No step removes or reorders
\* messages or shortens the list; an accepted submit appends the user
\* message, and the OK response to it appends exactly one placeholder after
\* it.
C27_AppendOnly ==
  /\ [][ /\ Len(messages') \in {Len(messages), Len(messages) + 1}
         /\ \A i \in 1..Len(messages) :
              /\ messages'[i].id = messages[i].id
              /\ messages'[i].role = messages[i].role
         /\ body' /= body =>
              messages' = Append(messages, Msg(now', "user", input))
         /\ (pc = "fetching" /\ pc' /= "fetching" /\ outcome' /= "failed") =>
              messages' = Append(messages, Msg(assistantId', "assistant", <<>>))
         /\ pc = "reading" => ~(pc' = "fetching") ]_vars
  /\ []exchanges

\* Two requests: the first got a placeholder with content and then failed
\* mid-stream, the second got its placeholder.
C27_Witness ==
  /\ Len(messages) = 5
  /\ messages[1].role = "user"
  /\ messages[2].role = "assistant" /\ messages[2].content = <<"a">>
  /\ isError(messages[3])
  /\ messages[4].role = "user"
  /\ messages[5].role = "assistant" /\ ~isError(messages[5])

\* The checks that have come back, and the one of them started last.
completedChecks == (1..mcp.started) \ mcp.inflight
latestCompleted == CHOOSE id \in completedChecks : \A other \in completedChecks : other <= id

\* C28: with checks that overlap, the status displayed comes from the most
\* recently started check among those completed (an earlier, slower check
\* never replaces the result of a later one), and nothing is updated once
\* the component has unmounted.
C28_LatestCheckWins ==
  /\ []((mcp.mounted /\ mcp.completed > 0) => mcp.source = latestCompleted)
  /\ [][~mcp.mounted => (mcp'.status = mcp.status /\ mcp'.loading = mcp.loading)]_vars

====
